---- MODULE Spec2Model ----
(***************************************************************************)
(* Model of chushihua.py: the conversion between columnar text files and   *)
(* the plain / extended XYZ trajectory formats.                            *)
(*                                                                         *)
(* A Python str is modelled as a sequence of one-character strings, so     *)
(* that strip, split, join, replace, isdigit and the two regular           *)
(* expressions of split_extxyz are computed character by character.        *)
(* A Python list is a sequence; frame and atom indices are 1-based here    *)
(* and 0-based in the messages and in the generated text, as in the code.  *)
(***************************************************************************)
EXTENDS Integers, Sequences, FiniteSets, TLC

(***************************************************************************)
(* Bounds of the model.                                                    *)
(***************************************************************************)
MaxFrames == 2
MaxAtoms == 2

(***************************************************************************)
(* Python's None and optional values.                                      *)
(***************************************************************************)
None == [present |-> FALSE, v |-> <<>>]
Some(x) == [present |-> TRUE, v |-> x]

(***************************************************************************)
(* str primitives.                                                         *)
(***************************************************************************)
DigitSeq == <<"0", "1", "2", "3", "4", "5", "6", "7", "8", "9">>
DigitChars == {DigitSeq[k] : k \in 1..Len(DigitSeq)}
LetterChars ==
  {"a", "b", "c", "d", "e", "f", "g", "h", "i", "j", "k", "l", "m",
   "n", "o", "p", "q", "r", "s", "t", "u", "v", "w", "x", "y", "z",
   "A", "B", "C", "D", "E", "F", "G", "H", "I", "J", "K", "L", "M",
   "N", "O", "P", "Q", "R", "S", "T", "U", "V", "W", "X", "Y", "Z"}

IsSpace(c) == c \in {" ", "\t", "\n", "\r"}
IsWord(c) == c \in LetterChars \cup DigitChars \cup {"_"}
NotSpaceChar(c) == c # " "
NotQuote(c) == c # "\""
NotWhite(c) == ~IsSpace(c)

SetMin(S) == CHOOSE x \in S : \A y \in S : x <= y
SetMax(S) == CHOOSE x \in S : \A y \in S : x >= y

\* the character classes of the patterns and loops that scan a string
InClass(c, class) ==
  CASE class = "word" -> IsWord(c)
    [] class = "not_space" -> NotSpaceChar(c)
    [] class = "not_quote" -> NotQuote(c)
    [] class = "not_white" -> NotWhite(c)
    [] class = "not_newline" -> c # "\n"
    [] class = "dot" -> c = "."

\* first index k >= i whose character is not of the class, or Len(s)+1: the
\* end of the run of the class from i
RunEnd(s, i, class) ==
  LET stops == {k \in i..Len(s) : ~InClass(s[k], class)}
  IN IF stops = {} THEN Len(s) + 1 ELSE SetMin(stops)

\* str.strip()
Strip(s) ==
  LET keep == {k \in 1..Len(s) : ~IsSpace(s[k])}
  IN IF keep = {} THEN <<>> ELSE SubSeq(s, SetMin(keep), SetMax(keep))

\* str.split() with no argument: runs of non-whitespace
RECURSIVE SplitFrom(_, _)
SplitFrom(s, i) ==
  IF i > Len(s) THEN <<>>
  ELSE IF IsSpace(s[i]) THEN SplitFrom(s, i + 1)
  ELSE LET e == RunEnd(s, i, "not_white")
       IN <<SubSeq(s, i, e - 1)>> \o SplitFrom(s, e)

Split(s) == SplitFrom(s, 1)

\* sep.join(xs)
RECURSIVE Join(_, _)
Join(sep, xs) ==
  IF Len(xs) = 0 THEN <<>>
  ELSE IF Len(xs) = 1 THEN xs[1]
  ELSE xs[1] \o sep \o Join(sep, Tail(xs))

\* str.isdigit()
IsDigit(s) == Len(s) > 0 /\ \A k \in 1..Len(s) : s[k] \in DigitChars

\* str.replace(a, b) for one-character a and b
Replace(s, a, b) == [k \in 1..Len(s) |-> IF s[k] = a THEN b ELSE s[k]]

\* str(n) / f"{n}" for a non-negative int
RECURSIVE IntToStr(_)
IntToStr(n) ==
  IF n < 10 THEN <<DigitSeq[n + 1]>>
  ELSE IntToStr(n \div 10) \o <<DigitSeq[(n % 10) + 1]>>

\* whether int(s) succeeds: optional sign, digits, single underscores between
IntParses(s) ==
  LET t == Strip(s)
      u == IF Len(t) > 0 /\ t[1] \in {"+", "-"} THEN Tail(t) ELSE t
  IN /\ Len(u) > 0
     /\ u[1] \in DigitChars /\ u[Len(u)] \in DigitChars
     /\ \A k \in 1..Len(u) : u[k] \in DigitChars \cup {"_"}
     /\ \A k \in 1..(Len(u) - 1) : ~(u[k] = "_" /\ u[k + 1] = "_")

\* whether the substring p occurs in s at index i
MatchAt(s, i, p) == i + Len(p) - 1 <= Len(s) /\ SubSeq(s, i, i + Len(p) - 1) = p

\* iterating a text file: each line ends after its "\n"
RECURSIVE FileLinesFrom(_, _)
FileLinesFrom(text, i) ==
  IF i > Len(text) THEN <<>>
  ELSE LET nl == {k \in i..Len(text) : text[k] = "\n"}
           e == IF nl = {} THEN Len(text) ELSE SetMin(nl)
       IN <<SubSeq(text, i, e)>> \o FileLinesFrom(text, e + 1)

FileLines(text) == FileLinesFrom(text, 1)

\* f.write of lines each followed by "\n"
RECURSIVE WriteLines(_)
WriteLines(lines) ==
  IF Len(lines) = 0 THEN <<>> ELSE lines[1] \o <<"\n">> \o WriteLines(Tail(lines))

\* [line.strip() for line in lines if line.strip()]
StrippedLines(lines) ==
  LET kept == {k \in 1..Len(lines) : Strip(lines[k]) # <<>>}
      nth(j) == CHOOSE k \in kept : Cardinality({m \in kept : m <= k}) = j
  IN [j \in 1..Cardinality(kept) |-> Strip(lines[nth(j)])]

(***************************************************************************)
(* Printed messages.  A message keeps the data the f-string formats.       *)
(***************************************************************************)
Msg(kind, name, frame, expected, got) ==
  [msg |-> kind, name |-> name, frame |-> frame, expected |-> expected, got |-> got]

(***************************************************************************)
(* read_file / read_label_file                                             *)
(***************************************************************************)
NotBlank(line) == Strip(line) # <<>>
SplitEach(rows) == [j \in 1..Len(rows) |-> Split(rows[j])]

\* the rows of a whitespace-delimited file, blank lines skipped
read_file(text) == SplitEach(StrippedLines(FileLines(text)))

\* the stripped non-blank lines, or None when the path does not exist
read_label_file(file) ==
  IF ~file.present THEN None
  ELSE Some(StrippedLines(FileLines(file.v)))

\* the blank-line warnings read_file / read_label_file print, in line order
read_warnings(text) ==
  LET lines == FileLines(text)
      blank == {k \in 1..Len(lines) : ~NotBlank(lines[k])}
      nth(j) == CHOOSE k \in blank : Cardinality({m \in blank : m <= k}) = j
  IN [j \in 1..Cardinality(blank) |-> Msg("blank_line", <<>>, nth(j), 0, 0)]

(***************************************************************************)
(* validate_data_consistency.  The result is the exception that leaves     *)
(* the function ("" when it returns) and the messages it printed: the      *)
(* errors list is printed only right before the ValueError is raised.      *)
(***************************************************************************)
frame_count_checks(num_frames, coordinates, energies, forces, box) ==
  (IF Len(coordinates) # num_frames
     THEN <<Msg("frames_coordinates", <<>>, -1, num_frames, Len(coordinates))>>
     ELSE <<>>)
  \o (IF Len(energies) # num_frames
        THEN <<Msg("frames_energies", <<>>, -1, num_frames, Len(energies))>>
        ELSE <<>>)
  \o (IF forces.present /\ Len(forces.v) # num_frames
        THEN <<Msg("frames_forces", <<>>, -1, num_frames, Len(forces.v))>>
        ELSE <<>>)
  \o (IF box.present /\ Len(box.v) # num_frames
        THEN <<Msg("frames_box", <<>>, -1, num_frames, Len(box.v))>>
        ELSE <<>>)

\* for label_name, label_values in labels.items(): len(None) is a TypeError
RECURSIVE label_count_checks(_, _, _)
label_count_checks(labels, num_frames, errors) ==
  IF Len(labels) = 0 THEN [exc |-> "", errors |-> errors]
  ELSE LET l == labels[1]
       IN IF ~l.values.present THEN [exc |-> "TypeError", errors |-> errors]
          ELSE label_count_checks(Tail(labels), num_frames,
                 IF Len(l.values.v) # num_frames
                   THEN Append(errors,
                          Msg("frames_label", l.name, -1, num_frames, Len(l.values.v)))
                   ELSE errors)

\* for i in range(num_frames): coordinates[i] and forces[i] are plain indexing
RECURSIVE frame_length_checks(_, _, _, _, _)
frame_length_checks(atom_types, coordinates, forces, i, errors) ==
  IF i > Len(atom_types) THEN [exc |-> "", errors |-> errors]
  ELSE
    LET num_atoms == Len(atom_types[i])
        expected == num_atoms * 3
    IN IF i > Len(coordinates) THEN [exc |-> "IndexError", errors |-> errors]
       ELSE
         LET e1 == IF Len(coordinates[i]) # expected
                     THEN Append(errors,
                            Msg("coord_len", <<>>, i - 1, expected, Len(coordinates[i])))
                     ELSE errors
         IN IF ~forces.present
              THEN frame_length_checks(atom_types, coordinates, forces, i + 1, e1)
            ELSE IF i > Len(forces.v) THEN [exc |-> "IndexError", errors |-> e1]
            ELSE frame_length_checks(atom_types, coordinates, forces, i + 1,
                   IF Len(forces.v[i]) # expected
                     THEN Append(e1,
                            Msg("force_len", <<>>, i - 1, expected, Len(forces.v[i])))
                     ELSE e1)

\* if errors: print each and raise ValueError; an exception raised earlier
\* leaves before anything is printed
validate_end(f) ==
  IF f.exc # "" THEN [exc |-> f.exc, printed |-> <<>>]
  ELSE IF f.errors # <<>> THEN [exc |-> "ValueError", printed |-> f.errors]
  ELSE [exc |-> "", printed |-> <<>>]

validate_frames(atom_types, coordinates, forces, l) ==
  IF l.exc # "" THEN l
  ELSE frame_length_checks(atom_types, coordinates, forces, 1, l.errors)

validate_data_consistency(atom_types, coordinates, energies, forces, box, labels) ==
  validate_end(
    validate_frames(atom_types, coordinates, forces,
      label_count_checks(labels, Len(atom_types),
        frame_count_checks(Len(atom_types), coordinates, energies, forces, box))))

(***************************************************************************)
(* The serializers.  A result is the exception raised ("" on return), the  *)
(* 0-based frame index its message names (-1 when the message is Python's  *)
(* own and names none), the returned text and the messages printed.        *)
(***************************************************************************)
Pad == <<" ", " ", " ", " ", " ">>
CommentI == <<" ", "i", " ", "=", " ">>
CommentE == <<",", " ", "E", " ", "=", " ">>
PropertiesToken ==
  <<"P", "r", "o", "p", "e", "r", "t", "i", "e", "s", "=", "s", "p", "e", "c", "i",
    "e", "s", ":", "S", ":", "1", ":", "p", "o", "s", ":", "R", ":", "3">>
ForcesSuffix == <<":", "f", "o", "r", "c", "e", "s", ":", "R", ":", "3">>
EnergyKey == <<" ", "e", "n", "e", "r", "g", "y", "=">>
PbcOpen == <<" ", "p", "b", "c", "=", "\"">>
FFF == <<"F", " ", "F", " ", "F">>
NoneStr == <<"N", "o", "n", "e">>

Raised(exc, frame, printed) ==
  [exc |-> exc, frame |-> frame, text |-> <<>>, printed |-> printed]
Returned(content, printed) ==
  [exc |-> "", frame |-> -1, text |-> Join(<<"\n">>, content), printed |-> printed]

\* row[j*3:(j+1)*3] for the 1-based atom j
Triple(row, j) == SubSeq(row, 3 * (j - 1) + 1, 3 * j)

\* a variant that gives every atom the coordinates of the first
xyz_atom_line_first_triple(atoms, coords, j) ==
  atoms[j] \o <<" ">> \o Join(<<" ">>, Triple(coords, 1))

\* f"{atom} {' '.join(coord)}"; the two IndexError guards of the atom loop
\* cannot fire after the length check of the frame
xyz_atom_line(atoms, coords, j) == atoms[j] \o <<" ">> \o Join(<<" ">>, Triple(coords, j))

RECURSIVE xyz_frames(_, _, _, _, _, _)
xyz_frames(atom_types, coordinates, energies, i, content, printed) ==
  IF i > Len(atom_types) THEN Returned(content, printed)
  ELSE
    LET num_atoms == Len(atom_types[i])
        p == Append(printed, Msg("frame", <<>>, i - 1, num_atoms, 0))
    IN IF i > Len(energies) THEN Raised("IndexError", i - 1, p)
       ELSE IF Len(energies[i]) = 0 THEN Raised("IndexError", -1, p)
       ELSE IF i > Len(coordinates) THEN Raised("IndexError", i - 1, p)
       ELSE IF Len(coordinates[i]) # num_atoms * 3 THEN Raised("ValueError", i - 1, p)
       ELSE xyz_frames(atom_types, coordinates, energies, i + 1,
              content
              \o <<Pad \o IntToStr(num_atoms),
                   CommentI \o IntToStr(i - 1) \o CommentE \o energies[i][1]>>
              \o [j \in 1..num_atoms |-> xyz_atom_line(atom_types[i], coordinates[i], j)],
              p)

generate_xyz_content(atom_types, coordinates, energies) ==
  xyz_frames(atom_types, coordinates, energies, 1, <<>>, <<>>)

\* values[i] if values[i] != "" else "None", then replace(" ", "_")
label_value(v) == Replace(IF v # <<>> THEN v ELSE NoneStr, " ", "_")

\* the " name=value" tokens of frame i, in the order of the labels dict
RECURSIVE label_tokens(_, _)
label_tokens(labels, i) ==
  IF Len(labels) = 0 THEN <<>>
  ELSE LET l == labels[1]
       IN (IF l.values.present /\ i <= Len(l.values.v)
             THEN <<" ">> \o l.name \o <<"=">> \o label_value(l.values.v[i])
             ELSE <<>>)
          \o label_tokens(Tail(labels), i)

\* the warnings of frame i, one per label without a value for it
RECURSIVE label_warnings(_, _)
label_warnings(labels, i) ==
  IF Len(labels) = 0 THEN <<>>
  ELSE LET l == labels[1]
       IN (IF l.values.present /\ i <= Len(l.values.v)
             THEN <<>>
             ELSE <<Msg("missing_label", l.name, i - 1, 0, 0)>>)
          \o label_warnings(Tail(labels), i)

\* a variant that uses the box row under either mode
pbc_value_any_mode(pbc_option, box, i) ==
  IF box.present /\ i <= Len(box.v) THEN Join(<<" ">>, box.v[i]) ELSE FFF

pbc_value(pbc_option, box, i) ==
  IF pbc_option = "box" /\ box.present
    THEN IF i <= Len(box.v) THEN Join(<<" ">>, box.v[i]) ELSE FFF
    ELSE FFF

properties_token(forces) ==
  IF forces.present THEN PropertiesToken \o ForcesSuffix ELSE PropertiesToken

metadata_line(energies, forces, box, labels, pbc_option, i) ==
  properties_token(forces) \o label_tokens(labels, i)
  \o EnergyKey \o energies[i][1]
  \o PbcOpen \o pbc_value(pbc_option, box, i) \o <<"\"">>

extxyz_atom_line(atoms, coords, forces, i, j) ==
  atoms[j] \o <<" ">> \o Join(<<" ">>, Triple(coords, j))
  \o (IF forces.present THEN <<" ">> \o Join(<<" ">>, Triple(forces.v[i], j)) ELSE <<>>)

RECURSIVE extxyz_frames(_, _, _, _, _, _, _, _, _, _)
extxyz_frames(atom_types, coordinates, energies, forces, box, labels, pbc_option, i, content, printed) ==
  IF i > Len(atom_types) THEN Returned(content, printed)
  ELSE
    LET num_atoms == Len(atom_types[i])
        p0 == Append(printed, Msg("frame", <<>>, i - 1, num_atoms, 0))
        p == p0 \o label_warnings(labels, i)
    IN IF i > Len(energies) THEN Raised("IndexError", i - 1, p0)
       ELSE IF Len(energies[i]) = 0 THEN Raised("IndexError", -1, p)
       ELSE IF i > Len(coordinates) THEN Raised("IndexError", -1, p)
       ELSE IF Len(coordinates[i]) # num_atoms * 3 THEN Raised("ValueError", i - 1, p)
       ELSE IF forces.present /\ i > Len(forces.v) THEN Raised("IndexError", -1, p)
       ELSE IF forces.present /\ Len(forces.v[i]) # num_atoms * 3
         THEN Raised("ValueError", i - 1, p)
       ELSE extxyz_frames(atom_types, coordinates, energies, forces, box, labels,
              pbc_option, i + 1,
              content
              \o <<IntToStr(num_atoms),
                   metadata_line(energies, forces, box, labels, pbc_option, i)>>
              \o [j \in 1..num_atoms |->
                    extxyz_atom_line(atom_types[i], coordinates[i], forces, i, j)],
              p)

generate_extxyz_content(atom_types, coordinates, energies, forces, box, labels, pbc_option) ==
  extxyz_frames(atom_types, coordinates, energies, forces, box, labels, pbc_option,
                1, <<>>, <<>>)

(***************************************************************************)
(* split_extxyz: the helpers of the metadata line.                         *)
(***************************************************************************)
KeyProperties == <<"P", "r", "o", "p", "e", "r", "t", "i", "e", "s">>
KeyPbc == <<"p", "b", "c">>
KeyEnergy == <<"e", "n", "e", "r", "g", "y">>
PbcPattern == <<"p", "b", "c", "=", "\"">>
TxtSuffix == <<".", "t", "x", "t">>
EnergyFile == <<"e", "n", "e", "r", "g", "y", ".", "n", "p", "y", ".", "t", "x", "t">>
BoxFile == <<"b", "o", "x", ".", "n", "p", "y", ".", "t", "x", "t">>
SpeciesFile ==
  <<"r", "e", "a", "l", "_", "a", "t", "o", "m", "_", "t", "y", "p", "e", "s",
    ".", "n", "p", "y", ".", "t", "x", "t">>
CoordFile == <<"c", "o", "o", "r", "d", ".", "n", "p", "y", ".", "t", "x", "t">>
ForceFile == <<"f", "o", "r", "c", "e", ".", "n", "p", "y", ".", "t", "x", "t">>

\* properties_str.split('=')[1] raises IndexError when the line has no "="
parse_properties_raises(properties_str) ==
  \A k \in 1..Len(properties_str) : properties_str[k] # "="

\* d[key] = value on an insertion-ordered dict of <<key, value>> pairs
DictPut(d, key, value) ==
  IF \E k \in 1..Len(d) : d[k][1] = key
    THEN [k \in 1..Len(d) |-> IF d[k][1] = key THEN <<key, value>> ELSE d[k]]
    ELSE Append(d, <<key, value>>)

DictHas(d, key) == \E k \in 1..Len(d) : d[k][1] = key
DictGet(d, key, default) ==
  IF DictHas(d, key) THEN d[CHOOSE k \in 1..Len(d) : d[k][1] = key][2] ELSE default

\* re.findall(r'(\w+)=([^ ]+)', line) from index i on, folded into the dict:
\* \w+ and [^ ]+ are greedy, and a shorter \w+ is never followed by "="
RECURSIVE find_labels(_, _, _)
find_labels(line, i, labels) ==
  IF i > Len(line) THEN labels
  ELSE IF ~IsWord(line[i]) THEN find_labels(line, i + 1, labels)
  ELSE
    LET q == RunEnd(line, i, "word")
        e == RunEnd(line, q + 1, "not_space")
        key == SubSeq(line, i, q - 1)
    IN IF q <= Len(line) /\ line[q] = "=" /\ e > q + 1
         THEN find_labels(line, e,
                IF key # KeyProperties /\ key # KeyPbc
                  THEN DictPut(labels, key, SubSeq(line, q + 1, e - 1))
                  ELSE labels)
         ELSE find_labels(line, i + 1, labels)

parse_labels(line) == find_labels(line, 1, <<>>)

\* re.search(r'pbc="([^"]+)"', line): the leftmost pbc=" followed by a
\* non-empty run without quotes and a closing quote
parse_pbc(line) ==
  LET hits == {k \in 1..Len(line) :
                 /\ MatchAt(line, k, PbcPattern)
                 /\ LET b == k + Len(PbcPattern)
                        e == RunEnd(line, b, "not_quote")
                    IN e > b /\ e <= Len(line)}
  IN IF hits = {} THEN None
     ELSE LET b == SetMin(hits) + Len(PbcPattern)
          IN Some(SubSeq(line, b, RunEnd(line, b, "not_quote") - 1))

\* open(path, 'a').write(line + "\n") in a directory modelled as name -> text
AppendLine(files, name, line) ==
  [n \in DOMAIN files \cup {name} |->
     (IF n \in DOMAIN files THEN files[n] ELSE <<>>)
     \o (IF n = name THEN line \o <<"\n">> ELSE <<>>)]

RECURSIVE write_labels(_, _, _)
write_labels(files, labels, k) ==
  IF k > Len(labels) THEN files
  ELSE write_labels(AppendLine(files, labels[k][1] \o TxtSuffix, labels[k][2]),
                    labels, k + 1)

\* the atom lines of a frame: species, positions and forces collected in order;
\* atom_data[0] raises IndexError on a blank line
RECURSIVE collect_atoms(_, _, _)
collect_atoms(atom_lines, k, acc) ==
  IF k > Len(atom_lines) THEN acc
  ELSE
    LET atom_data == Split(atom_lines[k])
        n == Len(atom_data)
    IN IF n = 0 THEN [acc EXCEPT !.exc = "IndexError"]
       ELSE collect_atoms(atom_lines, k + 1,
              [exc |-> "",
               species |-> Append(acc.species, atom_data[1]),
               positions |-> acc.positions
                               \o SubSeq(atom_data, 2, IF n < 4 THEN n ELSE 4),
               forces |-> acc.forces
                            \o (IF n > 4
                                  THEN SubSeq(atom_data, 5, IF n < 7 THEN n ELSE 7)
                                  ELSE <<>>)])

\* the body of "for i, frame in enumerate(frames)" for one frame: the
\* exception it raises ("" when none) and the files of temp_dir afterwards
\* a variant that writes the pbc token of every frame that has one
write_box_any_token(files, pbc) ==
  IF pbc.present THEN AppendLine(files, BoxFile, pbc.v) ELSE files

write_box(files, pbc) ==
  IF pbc.present /\ pbc.v # FFF THEN AppendLine(files, BoxFile, pbc.v) ELSE files

write_force(files, forces) ==
  IF forces # <<>> THEN AppendLine(files, ForceFile, Join(<<" ">>, forces)) ELSE files

\* a variant that writes an energy line only for a frame with an energy label
write_metadata_energy_if_present(files, labels, pbc) ==
  write_box(IF DictHas(labels, KeyEnergy)
              THEN AppendLine(write_labels(files, labels, 1), EnergyFile,
                              DictGet(labels, KeyEnergy, <<>>))
              ELSE write_labels(files, labels, 1),
            pbc)

\* the label, energy and box lines of the frame are written before its atom
\* lines are read
write_metadata(files, labels, pbc) ==
  write_box(AppendLine(write_labels(files, labels, 1), EnergyFile,
                       DictGet(labels, KeyEnergy, <<>>)),
            pbc)

write_atoms(files, atoms) ==
  IF atoms.exc # "" THEN [exc |-> atoms.exc, files |-> files]
  ELSE [exc |-> "",
        files |-> write_force(
                    AppendLine(AppendLine(files, SpeciesFile, Join(<<" ">>, atoms.species)),
                               CoordFile, Join(<<" ">>, atoms.positions)),
                    atoms.forces)]

process_frame(files, frame) ==
  IF ~IntParses(frame[1]) THEN [exc |-> "ValueError", files |-> files]
  ELSE IF Len(frame) < 2 THEN [exc |-> "IndexError", files |-> files]
  ELSE IF parse_properties_raises(frame[2]) THEN [exc |-> "IndexError", files |-> files]
  ELSE write_atoms(
         write_metadata(files, parse_labels(frame[2]), parse_pbc(frame[2])),
         collect_atoms(SubSeq(frame, 3, Len(frame)), 1,
           [exc |-> "", species |-> <<>>, positions |-> <<>>, forces |-> <<>>]))

(***************************************************************************)
(* The entry points generate_xyz and generate_extxyz (the definition at    *)
(* line 470 replaces the one at line 291) and their wrappers.              *)
(*                                                                         *)
(* A call's result: kind "return" or "raise"; exc, the exception that      *)
(* leaves the call; shape, what is returned: "none" (None), "pair"         *)
(* ((path, frames)), "none_pair" ((None, None)) or "path"; file, the text  *)
(* of the file at the returned path; written, the text of the              *)
(* delete=False temporary file left on disk; printed, the messages.        *)
(***************************************************************************)
Raise(exc, printed, written) ==
  [kind |-> "raise", exc |-> exc, shape |-> "none", file |-> None,
   frames |-> <<>>, printed |-> printed, written |-> written]
Return(shape, file, frames, printed, written) ==
  [kind |-> "return", exc |-> "", shape |-> shape, file |-> file,
   frames |-> frames, printed |-> printed, written |-> written]

\* whether float(token) succeeds: sign, digits with at most one ".",
\* an optional exponent (inf and nan spellings are not tokens of the model)
DecimalOk(m) ==
  /\ \A k \in 1..Len(m) : m[k] \in DigitChars \cup {"."}
  /\ Cardinality({k \in 1..Len(m) : m[k] = "."}) <= 1
  /\ \E k \in 1..Len(m) : m[k] \in DigitChars
Unsigned(t) == IF Len(t) > 0 /\ t[1] \in {"+", "-"} THEN Tail(t) ELSE t
FloatParses(token) ==
  LET u == Unsigned(Strip(token))
      es == {k \in 1..Len(u) : u[k] \in {"e", "E"}}
  IN IF es = {} THEN DecimalOk(u)
     ELSE LET k == SetMin(es)
          IN /\ DecimalOk(SubSeq(u, 1, k - 1))
             /\ IsDigit(Unsigned(SubSeq(u, k + 1, Len(u))))

\* the frames for the visualisation; a float is kept as the token it parses
project_frames(atom_types, coordinates) ==
  [i \in 1..Len(atom_types) |->
     [frame |-> i - 1, atoms |-> atom_types[i],
      coords |-> [j \in 1..Len(atom_types[i]) |-> Triple(coordinates[i], j)]]]

\* list(map(float, ...)) raises ValueError on a token that is no float; the
\* slices j*3:(j+1)*3 are within the row after validation
project_raises(atom_types, coordinates) ==
  \E i \in 1..Len(atom_types) : \E k \in 1..(3 * Len(atom_types[i])) :
    ~FloatParses(coordinates[i][k])

\* the temporary file is written, then the frames are projected
generate_saved(atom_types, coordinates, printed, text) ==
  IF project_raises(atom_types, coordinates)
    THEN Raise("ValueError", printed, Some(text))
    ELSE Return("pair", Some(text), project_frames(atom_types, coordinates),
                printed, Some(text))

\* try: content = ... except Exception: print, return failure
generate_written(atom_types, coordinates, warned, c, failure) ==
  IF c.exc # ""
    THEN Return(failure, None, <<>>,
                warned \o c.printed \o <<Msg("generate_error", <<>>, c.frame, 0, 0)>>,
                None)
    ELSE generate_saved(atom_types, coordinates, warned \o c.printed, c.text)

generate_xyz_validated(atom_types, coordinates, energies, warned, v) ==
  IF v.exc # "" THEN Raise(v.exc, warned \o v.printed, None)
  ELSE generate_written(atom_types, coordinates, warned,
                        generate_xyz_content(atom_types, coordinates, energies), "none")

generate_xyz_read(atom_types, coordinates, energies, warned) ==
  generate_xyz_validated(atom_types, coordinates, energies, warned,
    validate_data_consistency(atom_types, coordinates, energies, None, None, <<>>))

generate_xyz(atom_types_file, coordinates_file, energies_file) ==
  IF ~atom_types_file.present \/ ~coordinates_file.present \/ ~energies_file.present
    THEN Raise("AttributeError", <<>>, None)
    ELSE generate_xyz_read(
           read_file(atom_types_file.v), read_file(coordinates_file.v),
           read_file(energies_file.v),
           read_warnings(atom_types_file.v) \o read_warnings(coordinates_file.v)
           \o read_warnings(energies_file.v))

\* path, frames = f(...): unpacking None is a TypeError
unpack_pair(r) ==
  IF r.kind = "return" /\ r.shape = "none"
    THEN Raise("TypeError", r.printed, r.written)
    ELSE r

generate_xyz_wrapper(atom_types_file, coordinates_file, energies_file) ==
  unpack_pair(generate_xyz(atom_types_file, coordinates_file, energies_file))

\* os.path.splitext(os.path.basename(name))[0]: cut at the last dot that
\* follows a character other than a dot
splitext_root(name) ==
  LET lead == RunEnd(name, 1, "dot")
      dots == {k \in lead..Len(name) : name[k] = "."}
  IN IF dots = {} THEN name ELSE SubSeq(name, 1, SetMax(dots) - 1)

\* labels[label_name] = read_label_file(label_file.name), in upload order
RECURSIVE read_labels(_, _, _)
read_labels(label_files, k, labels) ==
  IF k > Len(label_files) THEN labels
  ELSE read_labels(label_files, k + 1,
         DictPut(labels, splitext_root(label_files[k].name),
                 read_label_file(label_files[k].file)))

\* the dict as the sequence of name/values records the functions iterate
label_items(d) == [k \in 1..Len(d) |-> [name |-> d[k][1], values |-> d[k][2]]]

RECURSIVE label_read_warnings(_, _)
label_read_warnings(label_files, k) ==
  IF k > Len(label_files) THEN <<>>
  ELSE (IF label_files[k].file.present
          THEN read_warnings(label_files[k].file.v)
          ELSE <<Msg("label_file_missing", label_files[k].name, -1, 0, 0)>>)
       \o label_read_warnings(label_files, k + 1)

optional_rows(file) == IF file.present THEN Some(read_file(file.v)) ELSE None
optional_warnings(file) == IF file.present THEN read_warnings(file.v) ELSE <<>>

generate_extxyz_validated(atom_types, coordinates, energies, forces, box, labels, pbc_option, warned, v) ==
  IF v.exc # "" THEN Raise(v.exc, warned \o v.printed, None)
  ELSE generate_written(atom_types, coordinates, warned,
         generate_extxyz_content(atom_types, coordinates, energies, forces, box,
                                 labels, pbc_option),
         "none_pair")

generate_extxyz_read(atom_types, coordinates, energies, forces, box, labels, pbc_option, warned) ==
  generate_extxyz_validated(atom_types, coordinates, energies, forces, box, labels,
    pbc_option, warned,
    validate_data_consistency(atom_types, coordinates, energies, forces, box, labels))

generate_extxyz(atom_types_file, coordinates_file, energies_file, forces_file, box_file, label_files, pbc_option) ==
  IF ~atom_types_file.present \/ ~coordinates_file.present \/ ~energies_file.present
    THEN Raise("AttributeError", <<>>, None)
    ELSE generate_extxyz_read(
           read_file(atom_types_file.v), read_file(coordinates_file.v),
           read_file(energies_file.v), optional_rows(forces_file),
           optional_rows(box_file), label_items(read_labels(label_files, 1, <<>>)),
           pbc_option,
           read_warnings(atom_types_file.v) \o read_warnings(coordinates_file.v)
           \o read_warnings(energies_file.v) \o optional_warnings(forces_file)
           \o optional_warnings(box_file) \o label_read_warnings(label_files, 1))

\* extxyz_path, frames = generate_extxyz(...)
generate_extxyz_wrapper(atom_types_file, coordinates_file, energies_file, forces_file, box_file, label_files, pbc_option) ==
  unpack_pair(generate_extxyz(atom_types_file, coordinates_file, energies_file,
                              forces_file, box_file, label_files, pbc_option))

(***************************************************************************)
(* The inputs the model draws.  A shape is the atom count of each frame;   *)
(* the canonical rows of a shape carry tokens that differ by frame, atom   *)
(* and component, and a variant damages them the way a wrong file would.   *)
(***************************************************************************)
SeqsUpTo(S, n) == UNION {[1..k -> S] : k \in 1..n}
Shapes == SeqsUpTo(1..MaxAtoms, MaxFrames)

SpeciesSeq == <<"H", "O", "C", "N">>
Digit(n) == DigitSeq[(n % Len(DigitSeq)) + 1]
species_token(j) == <<SpeciesSeq[((j - 1) % Len(SpeciesSeq)) + 1]>>
coord_token(i, m) == <<Digit(i), ".", Digit(m)>>
force_token(i, m) == <<"-", Digit(i), ".", Digit(m)>>
energy_token(i) == <<"-", Digit(i), ".", "5">>
label_text(i) == IF i % 2 = 1 THEN <<"r", " ", Digit(i)>> ELSE <<"s", Digit(i)>>

atom_rows(shape) == [i \in 1..Len(shape) |-> [j \in 1..shape[i] |-> species_token(j)]]
coord_rows(shape) ==
  [i \in 1..Len(shape) |-> [m \in 1..(3 * shape[i]) |-> coord_token(i, m)]]
force_rows(shape) ==
  [i \in 1..Len(shape) |-> [m \in 1..(3 * shape[i]) |-> force_token(i, m)]]
energy_rows(shape) == [i \in 1..Len(shape) |-> <<energy_token(i)>>]
box_rows(shape) == [i \in 1..Len(shape) |-> <<<<Digit(i)>>, <<"0">>, <<"0">>>>]
label_rows(shape) == [i \in 1..Len(shape) |-> label_text(i)]

Damage(variant, rows) ==
  CASE variant = "ok" -> rows
    [] variant = "fewer" -> SubSeq(rows, 1, Len(rows) - 1)
    [] variant = "more" -> Append(rows, rows[1])
    [] variant = "short_row" ->
         [rows EXCEPT ![Len(rows)] = SubSeq(@, 1, Len(@) - 1)]
    [] variant = "long_row" -> [rows EXCEPT ![1] = Append(@, @[1])]
    [] variant = "not_float" -> [rows EXCEPT ![1] = [@ EXCEPT ![1] = <<"x">>]]
    [] variant = "two_tokens" -> [rows EXCEPT ![1] = Append(@, <<"e", "V">>)]
    [] variant = "fff_row" -> [rows EXCEPT ![1] = <<<<"F">>, <<"F">>, <<"F">>>>]
    [] variant = "blank" -> [rows EXCEPT ![Len(rows)] = <<>>]

\* the text of a file with one row of tokens, or one label, per line
RowsFile(rows) == WriteLines([i \in 1..Len(rows) |-> Join(<<" ">>, rows[i])])
TagFileName == <<"t", "a", "g", ".", "t", "x", "t">>
TagName == <<"t", "a", "g">>
NoteName == <<"n", "o", "t", "e">>

LabelUploads(shape, lv) ==
  CASE lv = "none" -> <<>>
    [] lv = "tag" -> <<[name |-> TagFileName, file |-> Some(WriteLines(label_rows(shape)))]>>
    [] lv = "absent" -> <<[name |-> TagFileName, file |-> None]>>

NoUploads ==
  [atom_types_file |-> None, coordinates_file |-> None, energies_file |-> None,
   forces_file |-> None, box_file |-> None, label_files |-> <<>>, pbc_option |-> "fff"]

MkUploads(shape, cv, ev, fv, bv, lv, pbc_option) ==
  [atom_types_file |-> Some(RowsFile(atom_rows(shape))),
   coordinates_file |-> Some(RowsFile(Damage(cv, coord_rows(shape)))),
   energies_file |-> Some(RowsFile(Damage(ev, energy_rows(shape)))),
   forces_file |-> IF fv = "none" THEN None
                   ELSE Some(RowsFile(Damage(fv, force_rows(shape)))),
   box_file |-> IF bv = "none" THEN None
                ELSE Some(RowsFile(Damage(bv, box_rows(shape)))),
   label_files |-> LabelUploads(shape, lv),
   pbc_option |-> pbc_option]

\* the uploads of the two generation tabs: every combination of the optional
\* inputs on sound mandatory files, and each damaged coordinate file alone
GenUploads ==
  {MkUploads(shape, "ok", ev, fv, bv, lv, pbc_option) :
     shape \in Shapes, ev \in {"ok", "two_tokens"}, fv \in {"none", "ok"},
     bv \in {"none", "ok", "fff_row"}, lv \in {"none", "tag", "absent"},
     pbc_option \in {"box", "fff"}}
  \cup
  {MkUploads(shape, cv, "ok", fv, "none", "none", "fff") :
     shape \in Shapes, cv \in {"short_row", "fewer", "more", "not_float"},
     fv \in {"none", "ok"}}

(***************************************************************************)
(* Files for the split tab: every sequence of at most MaxLines lines       *)
(* drawn from a frame-opening line, two metadata lines, an atom line, a    *)
(* blank line and a line that is none of them.                             *)
(***************************************************************************)
MaxLines == 4
MetaLine ==
  PropertiesToken \o <<" ">> \o TagName \o <<"=", "a">>
  \o EnergyKey \o <<"-", "1">> \o PbcOpen \o <<"1", " ", "0", " ", "0">> \o <<"\"">>
\* a metadata line without labels, energy or pbc
BareMetaLine == PropertiesToken
LineSet ==
  {<<" ", "2">>, MetaLine, BareMetaLine, <<"H", " ", "1", " ", "2", " ", "3">>, <<>>,
   <<"x", "y">>}
SplitUploads == {WriteLines(ls) : ls \in SeqsUpTo(LineSet, MaxLines)}

(***************************************************************************)
(* Uploads of the npy tab.  A .npy file is its name and whether np.load    *)
(* and the conversion of its rows succeed; the numbers are not modelled.   *)
(***************************************************************************)
NpySuffix == <<".", "n", "p", "y">>
EnergyNpy == <<"e", "n", "e", "r", "g", "y">> \o NpySuffix
CoordNpy == <<"c", "o", "o", "r", "d">> \o NpySuffix
RealTypesNpy ==
  <<"r", "e", "a", "l", "_", "a", "t", "o", "m", "_", "t", "y", "p", "e", "s">>
  \o NpySuffix
ReadmeName == <<"R", "E", "A", "D", "M", "E">>
NpyFileSets ==
  {<<[name |-> EnergyNpy, ok |-> TRUE]>>,
   <<[name |-> EnergyNpy, ok |-> TRUE], [name |-> CoordNpy, ok |-> TRUE]>>,
   <<[name |-> EnergyNpy, ok |-> TRUE], [name |-> CoordNpy, ok |-> FALSE]>>,
   <<[name |-> EnergyNpy, ok |-> TRUE], [name |-> RealTypesNpy, ok |-> TRUE]>>,
   <<[name |-> CoordNpy, ok |-> TRUE], [name |-> ReadmeName, ok |-> FALSE]>>}
NoNpyUpload == [npy_files |-> None, type_map_file |-> FALSE, type_file |-> FALSE]
NpyUploads ==
  {[npy_files |-> Some(fs), type_map_file |-> tm, type_file |-> tf] :
     fs \in NpyFileSets, tm \in BOOLEAN, tf \in BOOLEAN}

(***************************************************************************)
(* Arguments for the direct calls of validate_data_consistency and of the  *)
(* two serializers: rows in memory, damaged field by field.                *)
(***************************************************************************)
note_rows(shape) == [i \in 1..Len(shape) |-> IF i = 1 THEN <<>> ELSE <<"n", Digit(i)>>]

LabelArgs(shape, lv) ==
  CASE lv = "none" -> <<>>
    [] lv = "two" -> <<[name |-> TagName, values |-> Some(label_rows(shape))],
                       [name |-> NoteName, values |-> Some(note_rows(shape))]>>
    [] lv = "fewer" -> <<[name |-> TagName,
                          values |-> Some(Damage("fewer", label_rows(shape)))]>>
    [] lv = "absent" -> <<[name |-> TagName, values |-> None]>>

MkArgs(shape, cv, ev, fv, bv, lv, pbc_option) ==
  [atom_types |-> atom_rows(shape),
   coordinates |-> Damage(cv, coord_rows(shape)),
   energies |-> Damage(ev, energy_rows(shape)),
   forces |-> IF fv = "none" THEN None ELSE Some(Damage(fv, force_rows(shape))),
   box |-> IF bv = "none" THEN None ELSE Some(Damage(bv, box_rows(shape))),
   labels |-> LabelArgs(shape, lv),
   pbc_option |-> pbc_option]

ArgSet ==
  {MkArgs(shape, cv, ev, fv, bv, lv, pbc_option) :
     shape \in Shapes, cv \in {"ok", "fewer", "more", "short_row", "long_row"},
     ev \in {"ok", "fewer", "more", "two_tokens"},
     fv \in {"none", "ok", "fewer", "short_row", "long_row"},
     bv \in {"none", "ok", "fewer"}, lv \in {"none", "two", "fewer", "absent"},
     pbc_option \in {"box", "fff"}}

\* filename.endswith(suffix)
EndsWith(name, suffix) ==
  Len(name) >= Len(suffix) /\ SubSeq(name, Len(name) - Len(suffix) + 1, Len(name)) = suffix

\* the try body of npy_to_txt: the exception it raises ("" when none) and the
\* files of txt_output that go into the archive
npy_to_txt_body(upload) ==
  IF ~upload.npy_files.present THEN [exc |-> "TypeError", files |-> <<>>]
  ELSE
    LET npy_files == upload.npy_files.v
        npy == {k \in 1..Len(npy_files) : EndsWith(npy_files[k].name, NpySuffix)}
        txt(k) == SubSeq(npy_files[k].name, 1, Len(npy_files[k].name) - 4) \o TxtSuffix
        converted == {txt(k) : k \in npy}
        real_atom_types_exists == \E k \in 1..Len(npy_files) : npy_files[k].name = RealTypesNpy
        third == /\ upload.type_file /\ upload.type_map_file
                 /\ ~real_atom_types_exists
                 /\ (SubSeq(EnergyNpy, 1, Len(EnergyNpy) - 4) \o TxtSuffix) \in converted
        names == converted
                 \cup (IF third
                         THEN {SubSeq(RealTypesNpy, 1, Len(RealTypesNpy) - 4) \o TxtSuffix}
                         ELSE {})
    IN IF \E k \in npy : ~npy_files[k].ok THEN [exc |-> "LoadError", files |-> <<>>]
       ELSE [exc |-> "", files |-> [n \in names |-> <<>>]]

(***************************************************************************)
(* The state.                                                              *)
(***************************************************************************)
VARIABLES
  uploads,        \* the files and the pbc option of the generation tabs
  extxyz_upload,  \* the file of the split tab
  npy_upload,     \* the files of the npy tab
  args,           \* the arguments of a direct call of a function
  pc,             \* "idle", or the position inside split_extxyz / npy_to_txt
  op,             \* the function called last (or running)
  ret,            \* its result
  log,            \* the messages printed by the steps of the running call
  temp_dirs,      \* the directories made by tempfile.mkdtemp that exist
  temp_dir,       \* the directory of the running call
  temp_files,     \* the files in it: name -> text
  extxyz_output,  \* the text of the last generated .extxyz file
  input_file,     \* split_extxyz: its argument
  lines,          \* split_extxyz: the lines of the file not read yet
  current_frame,  \* split_extxyz: the lines of the frame being read
  frames,         \* split_extxyz: the frames read
  frame_i         \* split_extxyz: the index of the next frame to process

vars ==
  <<uploads, extxyz_upload, npy_upload, args, pc, op, ret, log, temp_dirs, temp_dir,
    temp_files, extxyz_output, input_file, lines, current_frame, frames, frame_i>>

inputs == <<uploads, extxyz_upload, npy_upload, args>>
split_locals == <<input_file, lines, current_frame, frames, frame_i>>

NoRet == Return("none", None, <<>>, <<>>, None)
NoArgs ==
  [atom_types |-> <<>>, coordinates |-> <<>>, energies |-> <<>>, forces |-> None,
   box |-> None, labels |-> <<>>, pbc_option |-> "fff"]

Fresh ==
  /\ pc = "idle" /\ op = "none" /\ ret = NoRet /\ log = <<>>
  /\ temp_dirs = {} /\ temp_dir = 0 /\ temp_files = <<>>
  /\ extxyz_output = None /\ input_file = None
  /\ lines = <<>> /\ current_frame = <<>> /\ frames = <<>> /\ frame_i = 1

\* the program after start-up, with files uploaded in one of its tabs
Init ==
  /\ Fresh
  /\ args = NoArgs
  /\ \/ uploads \in GenUploads /\ extxyz_upload = None /\ npy_upload = NoNpyUpload
     \/ uploads = NoUploads /\ extxyz_upload \in {Some(t) : t \in SplitUploads}
        /\ npy_upload = NoNpyUpload
     \/ uploads = NoUploads /\ extxyz_upload = None /\ npy_upload \in NpyUploads

(***************************************************************************)
(* The handlers of the generation tabs run in one step.                    *)
(***************************************************************************)
Finished(name, r) == op' = name /\ ret' = r /\ log' = r.printed

\* the output component keeps the file of the last call that returned one
Downloaded(r) ==
  extxyz_output' = IF r.kind = "return" /\ r.file.present THEN r.file ELSE extxyz_output

GenerateXyz ==
  /\ pc = "idle"
  /\ Finished("generate_xyz_wrapper",
       generate_xyz_wrapper(uploads.atom_types_file, uploads.coordinates_file,
                            uploads.energies_file))
  /\ UNCHANGED <<inputs, pc, temp_dirs, temp_dir, temp_files, extxyz_output, split_locals>>

GenerateExtxyzDone(r) == Finished("generate_extxyz_wrapper", r) /\ Downloaded(r)

GenerateExtxyz ==
  /\ pc = "idle"
  /\ GenerateExtxyzDone(
       generate_extxyz_wrapper(uploads.atom_types_file, uploads.coordinates_file,
         uploads.energies_file, uploads.forces_file, uploads.box_file,
         uploads.label_files, uploads.pbc_option))
  /\ UNCHANGED <<inputs, pc, temp_dirs, temp_dir, temp_files, split_locals>>

(***************************************************************************)
(* split_extxyz, one step per line read and per frame processed.           *)
(***************************************************************************)
mkdtemp == IF temp_dirs = {} THEN 1 ELSE SetMax(temp_dirs) + 1

\* temp_dir = tempfile.mkdtemp(); open(input_file.name): the argument is the
\* uploaded file or the downloaded result of the extended generation
SplitBegin ==
  /\ pc = "idle"
  /\ \E f \in {extxyz_upload, extxyz_output} :
       /\ input_file' = f
       /\ op' = "split_extxyz"
       /\ temp_dir' = mkdtemp
       /\ temp_dirs' = temp_dirs \cup {mkdtemp}
       /\ temp_files' = <<>>
       /\ current_frame' = <<>> /\ frames' = <<>> /\ frame_i' = 1
       /\ IF f.present
            THEN /\ lines' = FileLines(f.v)
                 /\ pc' = "split_scan"
                 /\ ret' = NoRet /\ log' = <<>>
            ELSE /\ lines' = <<>>
                 /\ pc' = "split_finally"
                 /\ ret' = Return("none", None, <<>>, <<>>, None)
                 /\ log' = <<Msg("split_error", <<>>, -1, 0, 0)>>
  /\ UNCHANGED <<inputs, extxyz_output>>

\* one iteration of "for line in f"
SplitScanLine ==
  /\ pc = "split_scan" /\ lines # <<>>
  /\ LET line == Head(lines)
     IN IF IsDigit(Strip(line)) /\ current_frame # <<>>
          THEN /\ frames' = Append(frames, current_frame)
               /\ current_frame' = <<Strip(line)>>
          ELSE /\ frames' = frames
               /\ current_frame' = Append(current_frame, Strip(line))
  /\ lines' = Tail(lines)
  /\ UNCHANGED <<inputs, pc, op, ret, log, temp_dirs, temp_dir, temp_files,
                 extxyz_output, input_file, frame_i>>

\* the end of the file: "if current_frame: frames.append(current_frame)"
SplitScanEnd ==
  /\ pc = "split_scan" /\ lines = <<>>
  /\ frames' = IF current_frame # <<>> THEN Append(frames, current_frame) ELSE frames
  /\ pc' = "split_frames"
  /\ UNCHANGED <<inputs, op, ret, log, temp_dirs, temp_dir, temp_files, extxyz_output,
                 input_file, lines, current_frame, frame_i>>

\* one iteration of "for i, frame in enumerate(frames)"; an exception goes to
\* the except clause, which prints it and returns None
SplitFrameDone(r) ==
  /\ temp_files' = r.files
  /\ IF r.exc = ""
       THEN /\ frame_i' = frame_i + 1
            /\ UNCHANGED <<pc, ret, log>>
       ELSE /\ pc' = "split_finally"
            /\ ret' = Return("none", None, <<>>, <<>>, None)
            /\ log' = Append(log, Msg("split_error", <<>>, frame_i - 1, 0, 0))
            /\ UNCHANGED frame_i

SplitFrame ==
  /\ pc = "split_frames" /\ frame_i <= Len(frames)
  /\ SplitFrameDone(process_frame(temp_files, frames[frame_i]))
  /\ UNCHANGED <<inputs, op, temp_dirs, temp_dir, extxyz_output, input_file, lines,
                 current_frame, frames>>

\* the archive of the files of temp_dir, in a NamedTemporaryFile(delete=False)
SplitZip ==
  /\ pc = "split_frames" /\ frame_i > Len(frames)
  /\ ret' = Return("path", Some(temp_files), <<>>, <<>>, Some(temp_files))
  /\ pc' = "split_finally"
  /\ UNCHANGED <<inputs, op, log, temp_dirs, temp_dir, temp_files, extxyz_output,
                 split_locals>>

\* a variant whose finally clause leaves the directory in place
SplitFinally_keeps_dir ==
  /\ pc = "split_finally"
  /\ temp_files' = <<>>
  /\ pc' = "idle"
  /\ UNCHANGED <<inputs, op, ret, log, temp_dirs, temp_dir, extxyz_output, split_locals>>

\* finally: shutil.rmtree(temp_dir), and the call returns
SplitFinally ==
  /\ pc = "split_finally"
  /\ temp_dirs' = temp_dirs \ {temp_dir}
  /\ temp_files' = <<>>
  /\ pc' = "idle"
  /\ UNCHANGED <<inputs, op, ret, log, temp_dir, extxyz_output, split_locals>>

(***************************************************************************)
(* npy_to_txt: mkdtemp, the try body, the finally clause.                  *)
(***************************************************************************)
NpyBegin ==
  /\ pc = "idle"
  /\ op' = "npy_to_txt"
  /\ temp_dir' = mkdtemp
  /\ temp_dirs' = temp_dirs \cup {mkdtemp}
  /\ temp_files' = <<>>
  /\ ret' = NoRet /\ log' = <<>>
  /\ pc' = "npy_body"
  /\ UNCHANGED <<inputs, extxyz_output, split_locals>>

NpyBodyDone(r) ==
  /\ temp_files' = r.files
  /\ IF r.exc = ""
       THEN /\ ret' = Return("path", Some(r.files), <<>>, <<>>, Some(r.files))
            /\ log' = log
       ELSE /\ ret' = Return("none", None, <<>>, <<>>, None)
            /\ log' = Append(log, Msg("npy_error", <<>>, -1, 0, 0))

NpyBody ==
  /\ pc = "npy_body"
  /\ NpyBodyDone(npy_to_txt_body(npy_upload))
  /\ pc' = "npy_finally"
  /\ UNCHANGED <<inputs, op, temp_dirs, temp_dir, extxyz_output, split_locals>>

NpyFinally ==
  /\ pc = "npy_finally"
  /\ temp_dirs' = temp_dirs \ {temp_dir}
  /\ temp_files' = <<>>
  /\ pc' = "idle"
  /\ UNCHANGED <<inputs, op, ret, log, temp_dir, extxyz_output, split_locals>>

Next ==
  \/ GenerateXyz
  \/ GenerateExtxyz
  \/ SplitBegin
  \/ SplitScanLine
  \/ SplitScanEnd
  \/ SplitFrame
  \/ SplitZip
  \/ SplitFinally
  \/ NpyBegin
  \/ NpyBody
  \/ NpyFinally

Spec == Init /\ [][Next]_vars

(***************************************************************************)
(* The functions called directly on arguments in memory.                   *)
(***************************************************************************)
InitFn ==
  /\ Fresh
  /\ uploads = NoUploads /\ extxyz_upload = None /\ npy_upload = NoNpyUpload
  /\ args \in ArgSet

CallValidate ==
  /\ pc = "idle"
  /\ Finished("validate_data_consistency",
       validate_data_consistency(args.atom_types, args.coordinates, args.energies,
                                 args.forces, args.box, args.labels))
  /\ UNCHANGED <<inputs, pc, temp_dirs, temp_dir, temp_files, extxyz_output, split_locals>>

CallGenerateXyzContent ==
  /\ pc = "idle"
  /\ Finished("generate_xyz_content",
       generate_xyz_content(args.atom_types, args.coordinates, args.energies))
  /\ UNCHANGED <<inputs, pc, temp_dirs, temp_dir, temp_files, extxyz_output, split_locals>>

CallGenerateExtxyzContent ==
  /\ pc = "idle"
  /\ Finished("generate_extxyz_content",
       generate_extxyz_content(args.atom_types, args.coordinates, args.energies,
                               args.forces, args.box, args.labels, args.pbc_option))
  /\ UNCHANGED <<inputs, pc, temp_dirs, temp_dir, temp_files, extxyz_output, split_locals>>

NextFn ==
  \/ CallValidate
  \/ CallGenerateXyzContent
  \/ CallGenerateExtxyzContent

SpecFn == InitFn /\ [][NextFn]_vars

(***************************************************************************)
(* Helpers of the properties.                                              *)
(***************************************************************************)
\* text.split("\n")
RECURSIVE TextLinesFrom(_, _)
TextLinesFrom(text, i) ==
  LET e == RunEnd(text, i, "not_newline")
  IN IF e > Len(text) THEN <<SubSeq(text, i, Len(text))>>
     ELSE <<SubSeq(text, i, e - 1)>> \o TextLinesFrom(text, e + 1)
TextLines(text) == TextLinesFrom(text, 1)

\* the number of lines of the frames before frame i: 2 + atom count for each
RECURSIVE FrameBase(_, _)
FrameBase(atom_types, i) ==
  IF i <= 1 THEN 0 ELSE FrameBase(atom_types, i - 1) + 2 + Len(atom_types[i - 1])

Occurrences(s, p) == {k \in 1..Len(s) : MatchAt(s, k, p)}
Printed(kind, name, frame, expected, got) ==
  \E m \in 1..Len(ret.printed) : ret.printed[m] = Msg(kind, name, frame, expected, got)

NumFrames == Len(args.atom_types)
LabelsPresent == \A k \in 1..Len(args.labels) : args.labels[k].values.present

(***************************************************************************)
(* C2  Validator completeness: when coordinates, energies, forces, box or  *)
(* a label sequence has a frame count other than that of atom_types        *)
(* (shorter or longer), validate_data_consistency fails with its           *)
(* validation failure and the printed violations name every mismatched     *)
(* field.                                                                  *)
(***************************************************************************)
CountMismatch ==
  \/ Len(args.coordinates) # NumFrames
  \/ Len(args.energies) # NumFrames
  \/ args.forces.present /\ Len(args.forces.v) # NumFrames
  \/ args.box.present /\ Len(args.box.v) # NumFrames
  \/ \E k \in 1..Len(args.labels) : Len(args.labels[k].values.v) # NumFrames

C2_ValidatorCompleteness ==
  (op = "validate_data_consistency" /\ LabelsPresent /\ CountMismatch) =>
    /\ ret.exc = "ValueError"
    /\ Len(args.coordinates) # NumFrames =>
         Printed("frames_coordinates", <<>>, -1, NumFrames, Len(args.coordinates))
    /\ Len(args.energies) # NumFrames =>
         Printed("frames_energies", <<>>, -1, NumFrames, Len(args.energies))
    /\ (args.forces.present /\ Len(args.forces.v) # NumFrames) =>
         Printed("frames_forces", <<>>, -1, NumFrames, Len(args.forces.v))
    /\ (args.box.present /\ Len(args.box.v) # NumFrames) =>
         Printed("frames_box", <<>>, -1, NumFrames, Len(args.box.v))
    /\ \A k \in 1..Len(args.labels) :
         Len(args.labels[k].values.v) # NumFrames =>
           Printed("frames_label", args.labels[k].name, -1, NumFrames,
                   Len(args.labels[k].values.v))

(***************************************************************************)
(* C3  Per-frame length check: every frame i of atom_types whose           *)
(* coordinate vector (or, with forces supplied, force vector) has a length *)
(* other than 3 * len(atom_types[i]) makes validate_data_consistency fail  *)
(* with its validation failure and is reported by a violation naming       *)
(* frame i, whatever the other frames and fields are.                      *)
(***************************************************************************)
BadCoordFrames ==
  {i \in 1..NumFrames :
     i <= Len(args.coordinates) /\ Len(args.coordinates[i]) # 3 * Len(args.atom_types[i])}
BadForceFrames ==
  {i \in 1..NumFrames :
     /\ args.forces.present /\ i <= Len(args.forces.v)
     /\ Len(args.forces.v[i]) # 3 * Len(args.atom_types[i])}

C3_PerFrameLengthCheck ==
  (/\ op = "validate_data_consistency" /\ LabelsPresent
   /\ BadCoordFrames \cup BadForceFrames # {}) =>
    /\ ret.exc = "ValueError"
    /\ \A i \in BadCoordFrames :
         Printed("coord_len", <<>>, i - 1, 3 * Len(args.atom_types[i]),
                 Len(args.coordinates[i]))
    /\ \A i \in BadForceFrames :
         Printed("force_len", <<>>, i - 1, 3 * Len(args.atom_types[i]),
                 Len(args.forces.v[i]))

(***************************************************************************)
(* C5  Label rendering: in the text generate_extxyz_content returns, the   *)
(* metadata line of every frame i carries, for every declared label and in *)
(* declaration order, exactly one token name=value before energy=; value   *)
(* is the label's frame-i value with spaces replaced by underscores, and   *)
(* the literal None when that value is the empty string or is absent for   *)
(* the frame, the absent case also printing a warning.                     *)
(***************************************************************************)
ExtMetaLine(i) == TextLines(ret.text)[FrameBase(args.atom_types, i) + 2]
LabelAbsent(k, i) ==
  ~args.labels[k].values.present \/ i > Len(args.labels[k].values.v)
LabelKey(k) == <<" ">> \o args.labels[k].name \o <<"=">>
LabelRendered(k, i) ==
  IF LabelAbsent(k, i) \/ args.labels[k].values.v[i] = <<>> THEN NoneStr
  ELSE Replace(args.labels[k].values.v[i], " ", "_")
LabelAt(k, i) == SetMin(Occurrences(ExtMetaLine(i), LabelKey(k)))

C5_LabelRendering ==
  (op = "generate_extxyz_content" /\ ret.exc = "") =>
    \A i \in 1..NumFrames : \A k \in 1..Len(args.labels) :
      /\ Cardinality(Occurrences(ExtMetaLine(i), LabelKey(k))) = 1
      /\ MatchAt(ExtMetaLine(i), LabelAt(k, i),
                 LabelKey(k) \o LabelRendered(k, i) \o <<" ">>)
      /\ \A e \in Occurrences(ExtMetaLine(i), EnergyKey) : LabelAt(k, i) < e
      /\ k > 1 => LabelAt(k - 1, i) < LabelAt(k, i)
      /\ LabelAbsent(k, i) => Printed("missing_label", args.labels[k].name, i - 1, 0, 0)

(***************************************************************************)
(* C6  PBC mode selection: every metadata line of the text                 *)
(* generate_extxyz_content returns carries exactly one pbc token, at its   *)
(* end; under mode "fff" it is F F F whatever the box data; under mode     *)
(* "box" it is the space-joined tokens of box[i] when box has a row for    *)
(* frame i, and F F F when box is not supplied or has no row for frame i.  *)
(***************************************************************************)
ExpectedPbc(i) ==
  IF args.pbc_option = "fff" THEN <<"F", " ", "F", " ", "F">>
  ELSE IF args.box.present /\ i <= Len(args.box.v) THEN Join(<<" ">>, args.box.v[i])
  ELSE <<"F", " ", "F", " ", "F">>

C6_PbcModeSelection ==
  (op = "generate_extxyz_content" /\ ret.exc = "") =>
    \A i \in 1..NumFrames :
      /\ Cardinality(Occurrences(ExtMetaLine(i), PbcPattern)) = 1
      /\ EndsWith(ExtMetaLine(i), <<" ">> \o PbcPattern \o ExpectedPbc(i) \o <<"\"">>)

C6_Witness ==
  /\ op = "generate_extxyz_content" /\ ret.exc = ""
  /\ args.pbc_option = "box" /\ args.box.present
  /\ Len(args.box.v) >= 1 /\ Len(args.box.v) < NumFrames
  /\ ExpectedPbc(1) # ExpectedPbc(NumFrames)

(***************************************************************************)
(* C9  Plain serializer layout: for a validated collection of N frames     *)
(* generate_xyz_content returns the frames in index order, each as a line  *)
(* whose stripped value is the atom count, the comment line                *)
(* "i = <i>, E = <first token of energies[i]>", then one line              *)
(* "<species_j> <x> <y> <z>" per atom in input order, atom j taking the    *)
(* coordinate tokens 3j..3j+2; the lines are newline-joined with no        *)
(* trailing separator, sum over i of (2 + atom count of i) lines in all.   *)
(***************************************************************************)
Validated ==
  validate_data_consistency(args.atom_types, args.coordinates, args.energies,
                            args.forces, args.box, args.labels).exc = ""
XyzLine(n) == TextLines(ret.text)[n]

C9_PlainSerializerLayout ==
  (op = "generate_xyz_content" /\ Validated) =>
    /\ ret.exc = ""
    /\ Len(TextLines(ret.text)) = FrameBase(args.atom_types, NumFrames + 1)
    /\ \A i \in 1..NumFrames :
         /\ Strip(XyzLine(FrameBase(args.atom_types, i) + 1))
              = IntToStr(Len(args.atom_types[i]))
         /\ Strip(XyzLine(FrameBase(args.atom_types, i) + 2))
              = <<"i", " ", "=", " ">> \o IntToStr(i - 1)
                \o <<",", " ", "E", " ", "=", " ">> \o args.energies[i][1]
         /\ \A j \in 1..Len(args.atom_types[i]) :
              XyzLine(FrameBase(args.atom_types, i) + 2 + j)
                = args.atom_types[i][j] \o <<" ">> \o args.coordinates[i][3 * j - 2]
                  \o <<" ">> \o args.coordinates[i][3 * j - 1]
                  \o <<" ">> \o args.coordinates[i][3 * j]

C9_Witness ==
  /\ op = "generate_xyz_content" /\ Validated /\ ret.exc = ""
  /\ NumFrames = 2
  /\ Len(args.atom_types[1]) # Len(args.atom_types[2])
  /\ Len(args.energies[1]) = 2

(***************************************************************************)
(* C4  Absent optional inputs are non-fatal: when a label file given to    *)
(* generate_extxyz does not exist, or box is absent under mode "box", and  *)
(* the uploads are otherwise sound, the call returns the extended output   *)
(* with the default substituted (None for the label, F F F for pbc) and    *)
(* a warning recorded for the absent input; it does not raise.             *)
(***************************************************************************)
AbsentLabelFiles ==
  {k \in 1..Len(uploads.label_files) : ~uploads.label_files[k].file.present}
BoxAbsentWhenRequested == ~uploads.box_file.present /\ uploads.pbc_option = "box"
SoundWithoutAbsent ==
  generate_extxyz_wrapper(uploads.atom_types_file, uploads.coordinates_file,
    uploads.energies_file, uploads.forces_file, uploads.box_file,
    SelectSeq(uploads.label_files, LAMBDA l : l.file.present),
    uploads.pbc_option).shape = "pair"
OutMetaLine(i) ==
  TextLines(ret.file.v)[FrameBase(read_file(uploads.atom_types_file.v), i) + 2]

C4_AbsentOptionalInputs ==
  (/\ pc = "idle" /\ op = "generate_extxyz_wrapper" /\ SoundWithoutAbsent
   /\ AbsentLabelFiles # {} \/ BoxAbsentWhenRequested) =>
    /\ ret.kind = "return" /\ ret.shape = "pair" /\ ret.file.present
    /\ \A k \in AbsentLabelFiles :
         /\ \E m \in 1..Len(ret.printed) :
              /\ ret.printed[m].msg = "label_file_missing"
              /\ ret.printed[m].name = uploads.label_files[k].name
         /\ \A i \in 1..Len(ret.frames) :
              Occurrences(OutMetaLine(i),
                <<" ">> \o splitext_root(uploads.label_files[k].name)
                \o <<"=", "N", "o", "n", "e", " ">>) # {}
    /\ BoxAbsentWhenRequested =>
         /\ \E m \in 1..Len(ret.printed) : ret.printed[m].msg = "box_file_missing"
         /\ \A i \in 1..Len(ret.frames) :
              EndsWith(OutMetaLine(i), PbcPattern \o <<"F", " ", "F", " ", "F", "\"">>)

(***************************************************************************)
(* C7  All-or-nothing output: a finished call of generate_xyz_wrapper,     *)
(* generate_extxyz_wrapper, split_extxyz or npy_to_txt either returns a    *)
(* complete output artifact, or returns the one failure shape: no output   *)
(* path, nothing produced, and the failure reported.                       *)
(***************************************************************************)
EntryPoints ==
  {"generate_xyz_wrapper", "generate_extxyz_wrapper", "split_extxyz", "npy_to_txt"}
CompleteOutput ==
  ret.kind = "return" /\ ret.shape \in {"pair", "path"} /\ ret.file.present
EmptyFailure ==
  /\ ret.kind = "return" /\ ret.shape = "none"
  /\ ~ret.file.present /\ ~ret.written.present
  /\ log # <<>>

C7_AllOrNothingOutput ==
  (pc = "idle" /\ op \in EntryPoints) => (CompleteOutput \/ EmptyFailure)

(***************************************************************************)
(* C8  Temporary workspace cleanup: whenever no call of split_extxyz or    *)
(* npy_to_txt is running, no temporary directory created by them exists;   *)
(* while one runs, only its own directory does.  So every call removes     *)
(* its directory before it returns, on the success and the failure paths.  *)
(***************************************************************************)
C8_TempWorkspaceCleanup ==
  /\ pc = "idle" => (temp_dirs = {} /\ temp_files = <<>>)
  /\ pc # "idle" => temp_dirs = {temp_dir}

C8_Witness ==
  /\ pc = "idle" /\ op = "split_extxyz"
  /\ ret.shape = "none" /\ log # <<>>
  /\ frames # <<>> /\ temp_dir = 1 /\ temp_dirs = {}

(***************************************************************************)
(* C10  Parser frame segmentation: while split_extxyz scans the lines,     *)
(* the line right after a frame-opening line is taken as that frame's      *)
(* metadata line and never starts a new frame; only a digit-only line      *)
(* flushes the open frame; frames are flushed in input order; and at the   *)
(* end of the input the open frame, if not empty, is flushed once.         *)
(***************************************************************************)
AfterFrameStart == Len(current_frame) = 1 /\ IsDigit(current_frame[1])

C10_FrameSegmentation ==
  [][pc = "split_scan" =>
       /\ (lines # <<>> /\ AfterFrameStart) =>
            /\ frames' = frames
            /\ current_frame' = Append(current_frame, Strip(Head(lines)))
       /\ (lines # <<>> /\ frames' # frames) =>
            /\ IsDigit(Strip(Head(lines)))
            /\ frames' = Append(frames, current_frame)
       /\ lines = <<>> =>
            frames' = IF current_frame # <<>> THEN Append(frames, current_frame)
                      ELSE frames]_vars

(***************************************************************************)
(* Round trip: split_extxyz has run on the file generate_extxyz returned   *)
(* for the uploads, and the streams of the archive are compared with the   *)
(* rows read from the uploaded files.                                      *)
(***************************************************************************)
RoundTripDone ==
  /\ pc = "idle" /\ op = "split_extxyz"
  /\ input_file.present /\ input_file = extxyz_output
  /\ extxyz_output =
       generate_extxyz_wrapper(uploads.atom_types_file, uploads.coordinates_file,
         uploads.energies_file, uploads.forces_file, uploads.box_file,
         uploads.label_files, uploads.pbc_option).file

RowTexts(rows) == [i \in 1..Len(rows) |-> Join(<<" ">>, rows[i])]
HasStream(name, stream) ==
  name \in DOMAIN ret.file.v /\ ret.file.v[name] = WriteLines(stream)
NoStream(name) == name \notin DOMAIN ret.file.v
InLabel(k) == read_label_file(uploads.label_files[k].file).v
LabelStream(k) == splitext_root(uploads.label_files[k].name) \o TxtSuffix

(***************************************************************************)
(* C1  Round trip, as stated: splitting the text generated for an          *)
(* accepted collection gives, for every field of the input (atom types,    *)
(* coordinates, energies, and forces, box and each label when supplied),   *)
(* a stream whose i-th line is the input's i-th row of that field.         *)
(***************************************************************************)
C1_RoundTrip ==
  RoundTripDone =>
    /\ ret.shape = "path"
    /\ HasStream(SpeciesFile, RowTexts(read_file(uploads.atom_types_file.v)))
    /\ HasStream(CoordFile, RowTexts(read_file(uploads.coordinates_file.v)))
    /\ HasStream(EnergyFile, RowTexts(read_file(uploads.energies_file.v)))
    /\ uploads.forces_file.present =>
         HasStream(ForceFile, RowTexts(read_file(uploads.forces_file.v)))
    /\ uploads.box_file.present =>
         HasStream(BoxFile, RowTexts(read_file(uploads.box_file.v)))
    /\ \A k \in 1..Len(uploads.label_files) : HasStream(LabelStream(k), InLabel(k))

(***************************************************************************)
(* C1  Round trip, amended: the species and position streams equal the     *)
(* input rows, and the force stream does when forces are supplied; the     *)
(* energy stream, and the label stream energy.txt written beside it, hold  *)
(* the first token of each energies row; the box stream exists only under  *)
(* mode "box" and holds the box rows other than "F F F"; each label stream *)
(* holds the label's values with spaces replaced by underscores; the       *)
(* archive holds no other stream.                                          *)
(***************************************************************************)
FirstTokens(rows) == [i \in 1..Len(rows) |-> rows[i][1]]
Underscored(values) == [i \in 1..Len(values) |-> Replace(values[i], " ", "_")]
OpenBoxRows ==
  IF uploads.pbc_option = "box" /\ uploads.box_file.present
    THEN SelectSeq(RowTexts(read_file(uploads.box_file.v)),
                   LAMBDA t : t # <<"F", " ", "F", " ", "F">>)
    ELSE <<>>

C1_RoundTripAmended ==
  RoundTripDone =>
    /\ ret.shape = "path"
    /\ HasStream(SpeciesFile, RowTexts(read_file(uploads.atom_types_file.v)))
    /\ HasStream(CoordFile, RowTexts(read_file(uploads.coordinates_file.v)))
    /\ HasStream(EnergyFile, FirstTokens(read_file(uploads.energies_file.v)))
    /\ HasStream(KeyEnergy \o TxtSuffix, FirstTokens(read_file(uploads.energies_file.v)))
    /\ IF uploads.forces_file.present
         THEN HasStream(ForceFile, RowTexts(read_file(uploads.forces_file.v)))
         ELSE NoStream(ForceFile)
    /\ IF OpenBoxRows # <<>> THEN HasStream(BoxFile, OpenBoxRows) ELSE NoStream(BoxFile)
    /\ \A k \in 1..Len(uploads.label_files) :
         HasStream(LabelStream(k), Underscored(InLabel(k)))
    /\ DOMAIN ret.file.v \subseteq
         {SpeciesFile, CoordFile, EnergyFile, KeyEnergy \o TxtSuffix, ForceFile, BoxFile}
         \cup {LabelStream(k) : k \in 1..Len(uploads.label_files)}

C1_Witness ==
  /\ RoundTripDone /\ ret.shape = "path"
  /\ Len(read_file(uploads.atom_types_file.v)) = 2
  /\ uploads.forces_file.present /\ uploads.label_files # <<>>
  /\ uploads.pbc_option = "box" /\ uploads.box_file.present
  /\ Len(OpenBoxRows) = 1
  /\ Len(read_file(uploads.energies_file.v)[1]) = 2
  /\ Underscored(InLabel(1)) # InLabel(1)

(***************************************************************************)
(* The streams of split_extxyz, compared with the frames it has processed: *)
(* during the frame loop the files of temp_dir and the frames before       *)
(* frame_i, after the archive is built its files and all the frames.       *)
(***************************************************************************)
SplitStreamsReady ==
  /\ op = "split_extxyz"
  /\ \/ pc = "split_frames"
     \/ pc \in {"split_finally", "idle"} /\ ret.shape = "path"
SplitFiles == IF pc = "split_frames" THEN temp_files ELSE ret.file.v
FramesDone == IF pc = "split_frames" THEN frame_i - 1 ELSE Len(frames)
StreamText(name) == IF name \in DOMAIN SplitFiles THEN SplitFiles[name] ELSE <<>>

FrameLabels(k) == parse_labels(frames[k][2])
FramePbc(k) == parse_pbc(frames[k][2])
FrameHasBox(k) == FramePbc(k).present /\ FramePbc(k).v # <<"F", " ", "F", " ", "F">>
AtomTokens(k, a) == Split(frames[k][a + 2])
RECURSIVE Flatten(_)
Flatten(seqs) == IF seqs = <<>> THEN <<>> ELSE Head(seqs) \o Flatten(Tail(seqs))
SpeciesLine(k) ==
  Join(<<" ">>, [a \in 1..(Len(frames[k]) - 2) |-> AtomTokens(k, a)[1]])
PositionLine(k) ==
  Join(<<" ">>,
       Flatten([a \in 1..(Len(frames[k]) - 2) |->
                  SubSeq(AtomTokens(k, a), 2,
                         IF Len(AtomTokens(k, a)) < 4 THEN Len(AtomTokens(k, a)) ELSE 4)]))
EnergyLine(k) == DictGet(FrameLabels(k), KeyEnergy, <<>>)

RECURSIVE BoxLines(_)
BoxLines(n) ==
  IF n = 0 THEN <<>>
  ELSE BoxLines(n - 1) \o (IF FrameHasBox(n) THEN <<FramePbc(n).v>> ELSE <<>>)
RECURSIVE LabelLines(_, _)
LabelLines(name, n) ==
  IF n = 0 THEN <<>>
  ELSE LabelLines(name, n - 1)
       \o (IF DictHas(FrameLabels(n), name)
             THEN <<DictGet(FrameLabels(n), name, <<>>)>> ELSE <<>>)
DiscoveredLabels ==
  UNION {{FrameLabels(k)[m][1] : m \in 1..Len(FrameLabels(k))} : k \in 1..FramesDone}
  \ {KeyEnergy}

(***************************************************************************)
(* C11  Parser output streams: for the frames split_extxyz has processed,  *)
(* the species, position and energy streams hold exactly one line per      *)
(* frame in frame order, the energy line being the frame's energy label    *)
(* value or the empty string; the box stream holds a line only for the     *)
(* frames whose pbc token is present and not "F F F"; and the file of each *)
(* discovered label other than energy holds one line for each frame that   *)
(* has the label and none for the others, without placeholder rows.        *)
(***************************************************************************)
C11_ParserOutputStreams ==
  SplitStreamsReady =>
    /\ StreamText(SpeciesFile) = WriteLines([k \in 1..FramesDone |-> SpeciesLine(k)])
    /\ StreamText(CoordFile) = WriteLines([k \in 1..FramesDone |-> PositionLine(k)])
    /\ StreamText(EnergyFile) = WriteLines([k \in 1..FramesDone |-> EnergyLine(k)])
    /\ StreamText(BoxFile) = WriteLines(BoxLines(FramesDone))
    /\ \A name \in DiscoveredLabels :
         StreamText(name \o TxtSuffix) = WriteLines(LabelLines(name, FramesDone))

C11_Witness ==
  /\ SplitStreamsReady /\ pc = "idle" /\ Len(frames) = 2
  /\ DiscoveredLabels # {}
  /\ \E name \in DiscoveredLabels : Len(LabelLines(name, 2)) = 1
  /\ Len(BoxLines(2)) = 1
  /\ \E k \in 1..2 : ~DictHas(FrameLabels(k), KeyEnergy)
  /\ StreamText(EnergyFile) # <<>>

(***************************************************************************)
(* C12  Second gate: on arguments validate_data_consistency accepts,       *)
(* generate_xyz_content and generate_extxyz_content (under either pbc      *)
(* mode) return for every frame and raise nothing.  Conversely, when the   *)
(* serializer comes to a frame whose coordinate vector (for                *)
(* generate_extxyz_content also force vector) has a length other than      *)
(* 3 * atom count, it fails with an error that names that frame index and  *)
(* returns no content.                                                     *)
(***************************************************************************)
OffendingXyz == BadCoordFrames
OffendingExtxyz == BadCoordFrames \cup BadForceFrames
\* frame k has an energies row, a coordinates row and, with forces, a force row
FramePresent(k) ==
  /\ k <= Len(args.energies) /\ k <= Len(args.coordinates)
  /\ args.forces.present => k <= Len(args.forces.v)
\* the frames before frame i are complete, so the serializer comes to frame i
ComesTo(S) == \A k \in 1..(SetMin(S) - 1) : FramePresent(k)
FailsNaming(i) == ret.exc # "" /\ ret.frame = i - 1 /\ ret.text = <<>>

C12_SecondGate ==
  /\ (op \in {"generate_xyz_content", "generate_extxyz_content"} /\ Validated) =>
       /\ ret.exc = ""
       /\ Len(TextLines(ret.text)) = FrameBase(args.atom_types, NumFrames + 1)
  /\ (op = "generate_xyz_content" /\ OffendingXyz # {}
      /\ \A k \in 1..(SetMin(OffendingXyz) - 1) : k <= Len(args.energies)) =>
       FailsNaming(SetMin(OffendingXyz))
  /\ (op = "generate_extxyz_content" /\ OffendingExtxyz # {} /\ ComesTo(OffendingExtxyz)) =>
       FailsNaming(SetMin(OffendingExtxyz))

====
